---------------------------- MODULE Spec2Model ----------------------------
(***************************************************************************)
(* PinFlow PRO: the campaign scheduler (src/utils/scheduling.ts), the CSV   *)
(* export validator (src/public/utils/csv) and the application that runs   *)
(* them and syncs the cards' images to the cloud (src/public/App.tsx).     *)
(*                                                                         *)
(* JavaScript strings are sequences of one-character strings, so that      *)
(* startsWith, includes, replace, padStart and the date formatting are     *)
(* computed on characters.  A JavaScript object is a record; an optional   *)
(* property that is absent is a field that is not in the record's DOMAIN.  *)
(* Array indices keep the source's 0-based values (uIdx, vIdx, index);     *)
(* the sequences that hold the arrays are 1-based.                         *)
(***************************************************************************)
EXTENDS Integers, Sequences, FiniteSets, TLC

VARIABLES
    results,      \* the CampaignResult[] handed to the scheduler / the exporter
    settings,     \* AppSettings: pinsPerDay, startDate
    tz,           \* the browser's time zone: minutes east of UTC
    scheduled,    \* <<r>>: the collection the last scheduleCampaign call returned; <<>>: none yet
    history,      \* the settings of the scheduleCampaign calls made so far, in call order
    downloads,    \* the CSV files handed to the browser for download
    alerts,       \* the errors shown with alert()
    exports,      \* the number of exportToPinterestCSV calls made so far
    state,        \* App's GenerationState: loading, error, results (<<>> for null, else <<r>>)
    run,          \* the number of campaign runs started with handleProcess
    cards,        \* the asynchronous work of the PinStudioCards: image generations and cloud syncs in flight
    images        \* the number of card images generated so far

vars ==
    <<results, settings, tz, scheduled, history, downloads, alerts, exports,
      state, run, cards, images>>

\* the variables of the application
appVars == <<state, run, cards, images>>

---------------------------------------------------------------------------
(* Bounds of the model *)

MaxSources == 2          \* sources per drawn collection
SlotSources == 21        \* sources (of three variations) in the slot-time check's collection
MaxPinsPerDay == 5       \* largest raw pinsPerDay drawn for the first scheduler call
MaxEditedPinsPerDay == 1 \* largest raw pinsPerDay drawn for a later scheduler call
MaxSlotPinsPerDay == 60  \* largest raw pinsPerDay drawn for the slot-time check
MaxExports == 1          \* exportToPinterestCSV calls per behaviour

---------------------------------------------------------------------------
(* Strings *)

Max(a, b) == IF a >= b THEN a ELSE b
Min(a, b) == IF a <= b THEN a ELSE b

Digits == <<"0", "1", "2", "3", "4", "5", "6", "7", "8", "9">>

\* String(n) for an integer n >= 0
RECURSIVE String(_)
String(n) == IF n < 10 THEN <<Digits[n + 1]>>
             ELSE String(n \div 10) \o <<Digits[(n % 10) + 1]>>

\* the value of a decimal digit character
DigitValue(c) == CHOOSE k \in 0..9 : Digits[k + 1] = c

\* the number a string of decimal digits denotes
RECURSIVE ToNumber(_)
ToNumber(s) == IF s = <<>> THEN 0
               ELSE 10 * ToNumber(SubSeq(s, 1, Len(s) - 1)) + DigitValue(s[Len(s)])

\* s.startsWith(p)
startsWith(s, p) == Len(s) >= Len(p) /\ SubSeq(s, 1, Len(p)) = p

\* s.includes(p)
includes(s, p) == \E k \in 1..(Len(s) - Len(p) + 1) : SubSeq(s, k, k + Len(p) - 1) = p

\* s.substring(0, n)
substring0(s, n) == SubSeq(s, 1, Min(n, Len(s)))

\* String(n).padStart(2, '0'): pads on the left, never truncates
pad(n) == LET s == String(n) IN IF Len(s) < 2 THEN <<"0">> \o s ELSE s

\* {...obj, field: value}
With(obj, field, value) == (field :> value) @@ obj

\* obj.field is undefined or '' (falsy)
Falsy(obj, field) == field \notin DOMAIN obj \/ obj[field] = <<>>

---------------------------------------------------------------------------
(* Date: the local-time view of a JavaScript Date in time zone tz.         *)
(* day is the local calendar day counted from 1970-01-01, hour and minute  *)
(* the local time of day.  The zone's offset is taken as constant over the *)
(* campaign.                                                               *)

\* days from 1970-01-01 to the civil date y-m-d (proleptic Gregorian)
DaysFromCivil(y, m, d) ==
    LET yy  == IF m <= 2 THEN y - 1 ELSE y
        era == yy \div 400
        yoe == yy - era * 400
        mp  == (m + 9) % 12
        doy == (153 * mp + 2) \div 5 + d - 1
        doe == yoe * 365 + yoe \div 4 - yoe \div 100 + doy
    IN  era * 146097 + doe - 719468

\* the civil date [year, month, date] of a day count
CivilFromDays(z0) ==
    LET z   == z0 + 719468
        era == z \div 146097
        doe == z - era * 146097
        yoe == (doe - doe \div 1460 + doe \div 36524 - doe \div 146096) \div 365
        doy == doe - (365 * yoe + yoe \div 4 - yoe \div 100)
        mp  == (5 * doy + 2) \div 153
        d   == doy - (153 * mp + 2) \div 5 + 1
        m   == IF mp < 10 THEN mp + 3 ELSE mp - 9
        y   == yoe + era * 400
    IN  [year |-> IF m <= 2 THEN y + 1 ELSE y, month |-> m, date |-> d]

\* new Date("YYYY-MM-DD"): a date-only ISO string is midnight UTC; seen in
\* the local zone that instant is tz minutes later on the clock.
NewDate(iso, zone) ==
    LET utcDay == DaysFromCivil(ToNumber(SubSeq(iso, 1, 4)), ToNumber(SubSeq(iso, 6, 7)),
                                ToNumber(SubSeq(iso, 9, 10)))
        local  == utcDay * 1440 + zone
    IN  [day    |-> local \div 1440,
         hour   |-> (local % 1440) \div 60,
         minute |-> local % 60]

getFullYear(date) == CivilFromDays(date.day).year
getMonth(date) == CivilFromDays(date.day).month - 1
getDate(date) == CivilFromDays(date.day).date
getHours(date) == date.hour
getMinutes(date) == date.minute

\* date.setDate(n): day n of date's month, rolling over into later months
setDate(date, n) == [date EXCEPT !.day = date.day - getDate(date) + n]

\* date.setHours(h, m, 0, 0) for h in 0..23, m in 0..59
setHours(date, h, m) == [date EXCEPT !.hour = h, !.minute = m]

---------------------------------------------------------------------------
(* scheduleCampaign *)

\* Math.max(1, rawPinsPerDay || 3) for rawPinsPerDay an integer or undefined
\* (a settings object without the property); 0 and undefined are falsy
pinsPerDay(s) ==
    Max(1, IF "pinsPerDay" \notin DOMAIN s \/ s.pinsPerDay = 0 THEN 3 ELSE s.pinsPerDay)

\* 1. Flatten all pins for global distribution
RECURSIVE flattenFrom(_, _)
flattenFrom(res, u) ==
    IF u > Len(res) THEN <<>>
    ELSE [v \in 1..Len(res[u].variations) |->
             [url |-> res[u].sourceUrl, variation |-> res[u].variations[v],
              uIdx |-> u - 1, vIdx |-> v - 1]]
         \o flattenFrom(res, u + 1)

flattenedPins(res) == flattenFrom(res, 1)

dayOffset(index, p) == index \div p

pinIndexInDay(index, p) == index % p

hour(index, p) == 9 + (pinIndexInDay(index, p) * 12) \div p

minuteMutant(index, p) == (pinIndexInDay(index, p) * 15) % 60
minute(index, p) == (pinIndexInDay(index, p) * 17) % 60

\* the Date of the item at flattened position index
slotDate(index, s, zone) ==
    LET start == NewDate(s.startDate, zone)
        date  == setDate(start, getDate(start) + dayOffset(index, pinsPerDay(s)))
    IN  setHours(date, hour(index, pinsPerDay(s)), minute(index, pinsPerDay(s)))

\* `${getFullYear()}-${pad(getMonth() + 1)}-${pad(getDate())} ${pad(getHours())}:${pad(getMinutes())}`
dateStr(date) ==
    String(getFullYear(date)) \o <<"-">> \o pad(getMonth(date) + 1) \o <<"-">>
        \o pad(getDate(date)) \o <<" ">> \o pad(getHours(date)) \o <<":">>
        \o pad(getMinutes(date))

\* flattenedPins.map((item, index) => ({ ...item, dateStr })), from index on
RECURSIVE scheduleFrom(_, _, _, _)
scheduleFrom(flat, index, s, zone) ==
    IF index >= Len(flat) THEN <<>>
    ELSE <<With(flat[index + 1], "dateStr", dateStr(slotDate(index, s, zone)))>>
         \o scheduleFrom(flat, index + 1, s, zone)

\* 2. Strict Daily Distribution
scheduledFlat(res, s, zone) == scheduleFrom(flattenedPins(res), 0, s, zone)

\* scheduledFlat.find(s => s.uIdx === uIdx && s.vIdx === vIdx): <<item>>, or <<>> for undefined
findMutant(sf, uIdx, vIdx) ==
    LET hits == {k \in 1..Len(sf) : sf[k].uIdx = uIdx /\ sf[k].vIdx = vIdx + 1}
    IN  IF hits = {} THEN <<>>
        ELSE <<sf[CHOOSE k \in hits : \A j \in hits : k <= j]>>
find(sf, uIdx, vIdx) ==
    LET hits == {k \in 1..Len(sf) : sf[k].uIdx = uIdx /\ sf[k].vIdx = vIdx}
    IN  IF hits = {} THEN <<>>
        ELSE <<sf[CHOOSE k \in hits : \A j \in hits : k <= j]>>

\* one variation of the re-mapped structure
remapVariationMutant(variation, found) ==
    IF "scheduledDate" \in DOMAIN variation THEN variation
    ELSE With(variation, "scheduledDate", IF found # <<>> THEN found[1].dateStr ELSE <<>>)
remapVariation(variation, found) ==
    With(variation, "scheduledDate", IF found # <<>> THEN found[1].dateStr ELSE <<>>)

\* 3. Re-map to results structure
remapMutant(res, sf) ==
    LET kept == SelectSeq(res, LAMBDA r : r.variations # <<>>)
    IN  [u \in 1..Len(kept) |->
            With(kept[u], "variations",
                 [v \in 1..Len(kept[u].variations) |->
                     remapVariation(kept[u].variations[v], find(sf, u - 1, v - 1))])]
remap(res, sf) ==
    [u \in 1..Len(res) |->
        With(res[u], "variations",
             [v \in 1..Len(res[u].variations) |->
                 remapVariation(res[u].variations[v], find(sf, u - 1, v - 1))])]

scheduleCampaign(res, s, zone) == remap(res, scheduledFlat(res, s, zone))

---------------------------------------------------------------------------
(* generateCSVString, validateRow, exportToPinterestCSV *)

HTTPS == <<"h", "t", "t", "p", "s", ":", "/", "/">>

DataImage == <<"d", "a", "t", "a", ":", "i", "m", "a", "g", "e">>

Blob == <<"b", "l", "o", "b", ":">>

\* s.replace(/"/g, '""')
RECURSIVE escapeQuotes(_)
escapeQuotes(s) ==
    IF s = <<>> THEN <<>>
    ELSE (IF Head(s) = "\"" THEN <<"\"", "\"">> ELSE <<Head(s)>>) \o escapeQuotes(Tail(s))

\* `"${s}"`
quoted(s) == <<"\"">> \o s \o <<"\"">>

\* parts.join(sep)
RECURSIVE join(_, _)
join(parts, sep) ==
    IF parts = <<>> THEN <<>>
    ELSE IF Len(parts) = 1 THEN parts[1]
    ELSE parts[1] \o sep \o join(Tail(parts), sep)

\* cell.replace(/^"|"$/g, ''): one leading and one trailing quote removed
stripQuotes(cell) ==
    LET a == IF cell # <<>> /\ Head(cell) = "\"" THEN Tail(cell) ELSE cell
    IN  IF a # <<>> /\ a[Len(a)] = "\"" THEN SubSeq(a, 1, Len(a) - 1) ELSE a

RowError(idx, field) == [tag |-> "error", kind |-> "Row", idx |-> idx, field |-> field]

\* validateRow(row, idx): <<>> when the row passes, <<error>> for what it throws
validateRow(row, idx) ==
    LET cell     == [k \in 1..Len(row) |-> stripQuotes(row[k])]
        title    == cell[1]
        mediaUrl == cell[2]
        board    == cell[3]
        descr    == cell[4]
        link     == cell[5]
        date     == cell[6]
        keywords == cell[7]
    IN  IF title = <<>> THEN <<RowError(idx, "Title")>>
        ELSE IF \/ mediaUrl = <<>>
                \/ ~startsWith(mediaUrl, HTTPS)
                \/ includes(mediaUrl, DataImage)
                \/ includes(mediaUrl, Blob)
             THEN <<With(RowError(idx, "Media URL"), "current", substring0(mediaUrl, 30))>>
        ELSE IF board = <<>> THEN <<RowError(idx, "Board")>>
        ELSE IF descr = <<>> THEN <<RowError(idx, "Description")>>
        ELSE IF link = <<>> \/ ~startsWith(link, HTTPS) THEN <<RowError(idx, "Link")>>
        ELSE IF date = <<>> THEN <<RowError(idx, "Date")>>
        ELSE IF keywords = <<>> THEN <<RowError(idx, "Keywords")>>
        ELSE <<>>

\* headers.join(",")
headers ==
    <<"T", "i", "t", "l", "e", ",", "M", "e", "d", "i", "a", " ", "U", "R", "L", ",",
      "P", "i", "n", "t", "e", "r", "e", "s", "t", " ", "b", "o", "a", "r", "d", ",",
      "D", "e", "s", "c", "r", "i", "p", "t", "i", "o", "n", ",", "L", "i", "n", "k", ",",
      "P", "u", "b", "l", "i", "s", "h", " ", "d", "a", "t", "e", ",",
      "K", "e", "y", "w", "o", "r", "d", "s">>

\* the public-URL gate: !mediaUrl || !mediaUrl.startsWith("https://")
gateBlocksMutant(variation) == Falsy(variation, "publicMediaUrl")
gateBlocks(variation) ==
    Falsy(variation, "publicMediaUrl") \/ ~startsWith(variation.publicMediaUrl, HTTPS)

\* the callback of urlResult.variations.map: the row of one variation, or
\* what it throws.  suggestedBoards[0] of an empty list is undefined, and
\* undefined.replace(...) throws a TypeError.
projectRow(urlResult, variation) ==
    IF gateBlocks(variation)
    THEN [tag |-> "error", kind |-> "CloudSyncMissing", title |-> variation.title]
    ELSE IF variation.suggestedBoards = <<>>
    THEN [tag |-> "error", kind |-> "TypeError"]
    ELSE [tag   |-> "row",
          cells |-> << quoted(escapeQuotes(variation.title)),
                       quoted(variation.publicMediaUrl),
                       quoted(escapeQuotes(variation.suggestedBoards[1])),
                       quoted(escapeQuotes(variation.description)),
                       quoted(urlResult.sourceUrl),
                       quoted(IF Falsy(variation, "scheduledDate") THEN <<>>
                              ELSE variation.scheduledDate),
                       quoted(escapeQuotes(join(variation.keywords, <<",", " ">>))) >>]

\* data.flatMap(urlResult => urlResult.variations.map(...)), source by source
RECURSIVE projectFrom(_, _)
projectFrom(data, u) ==
    IF u > Len(data) THEN <<>>
    ELSE [v \in 1..Len(data[u].variations) |-> projectRow(data[u], data[u].variations[v])]
         \o projectFrom(data, u + 1)

\* the least index at which the sequence of booleans holds TRUE (the first
\* callback that throws), 0 when there is none
FirstIndex(flags) ==
    LET hits == {k \in 1..Len(flags) : flags[k]}
    IN  IF hits = {} THEN 0 ELSE CHOOSE k \in hits : \A j \in hits : k <= j

expectedTotal(data) == Len(data) * 3

\* rows.length !== expectedTotal
countMismatchMutant(found, expected) == found < expected
countMismatch(found, expected) == found # expected

\* [headers.join(","), ...rows.map(r => r.join(","))].join("\n")
csvText(rows) ==
    join(<<headers>> \o [k \in 1..Len(rows) |-> join(rows[k], <<",">>)], <<"\n">>)

\* generateCSVString(data): [tag |-> "csv", text |-> ...], or the error thrown
generateCSVString(data) ==
    LET projected == projectFrom(data, 1)
        thrown    == FirstIndex([k \in 1..Len(projected) |-> projected[k].tag = "error"])
        rows      == [k \in 1..Len(projected) |-> projected[k].cells]
        checked   == [k \in 1..Len(rows) |-> validateRow(rows[k], k)]
        badRow    == FirstIndex([k \in 1..Len(checked) |-> checked[k] # <<>>])
    IN  IF thrown # 0 THEN projected[thrown]
        ELSE IF countMismatch(Len(rows), expectedTotal(data))
        THEN [tag |-> "error", kind |-> "BatchIntegrity",
              expected |-> expectedTotal(data), found |-> Len(rows)]
        ELSE IF badRow # 0 THEN checked[badRow][1]
        ELSE [tag |-> "csv", text |-> csvText(rows)]

\* exportToPinterestCSV(data): the file handed to the browser and the alert
\* shown, each <<>> when there is none
exportToPinterestCSVMutant(data) ==
    LET r == generateCSVString(data)
    IN  IF r.tag = "csv" THEN [download |-> <<r.text>>, alert |-> <<>>]
        ELSE [download |-> <<headers>>, alert |-> <<r>>]
exportToPinterestCSV(data) ==
    LET r == generateCSVString(data)
    IN  IF r.tag = "csv" THEN [download |-> <<r.text>>, alert |-> <<>>]
        ELSE [download |-> <<>>, alert |-> <<r>>]

---------------------------------------------------------------------------
(* The collections and settings the checks draw their inputs from *)

\* a variation as the generation service returns it (geminiService.ts,
\* CAMPAIGN_SCHEMA): no scheduledDate, no image yet
freshVariation(u, v) ==
    [title           |-> <<"T">> \o String(u) \o String(v),
     description     |-> <<"D", "e", "s", "c">>,
     altText         |-> <<"A", "l", "t">> \o String(v),
     suggestedBoards |-> << <<"B", "o", "a", "r", "d">>, <<"B", "2">> >>,
     keywords        |-> << <<"k", "1">>, <<"k", "2">> >>]

\* the local preview a card generates (data:image/png;base64,...)
localPreview ==
    <<"d", "a", "t", "a", ":", "i", "m", "a", "g", "e", "/", "p", "n", "g", ";",
      "b", "a", "s", "e", "6", "4", ",", "A", "A", "A", "A">>

\* the URL the upload service returns for variation (u, v)
publicUrl(u, v) == HTTPS \o <<"c", "d", "n", ".", "i", "o", "/">> \o String(u) \o String(v)

\* a date left by an earlier scheduler pass
staleDate ==
    <<"2", "0", "2", "0", "-", "0", "2", "-", "0", "2", " ", "1", "0", ":", "1", "0">>

\* a variation that was scheduled and synced before
syncedVariation(u, v) ==
    With(With(With(freshVariation(u, v), "scheduledDate", staleDate),
              "generatedImageUrl", localPreview),
         "publicMediaUrl", publicUrl(u, v))

source(u, n, flavour) ==
    [sourceUrl  |-> HTTPS \o <<"s", ".", "i", "o", "/">> \o String(u),
     analysis   |-> [topic |-> <<"t">> \o String(u)],
     variations |-> [v \in 1..n |->
                       IF flavour = "fresh" THEN freshVariation(u, v)
                       ELSE syncedVariation(u, v)]]

\* the collection with shape[u] variations in source u
collection(shape, flavour) == [u \in 1..Len(shape) |-> source(u, shape[u], flavour)]

\* the numbers of variations a drawn source may have
VariationCounts == {0, 3}

\* collections whose sources do not have three variations each
UnevenShapes == {<<2>>, <<3, 2>>, <<1, 0, 2>>}

Shapes == UNION {[1..n -> VariationCounts] : n \in 0..MaxSources} \cup UnevenShapes

\* four sources of three variations: twelve items
TwelveItems == [u \in 1..4 |-> 3]

Flavours == {"fresh", "synced"}

StartDates ==
    { <<"2", "0", "2", "4", "-", "0", "1", "-", "0", "1">>,
      <<"2", "0", "2", "4", "-", "0", "2", "-", "2", "7">>,
      <<"2", "0", "2", "3", "-", "1", "2", "-", "3", "0">> }

\* New York, UTC, Kolkata
TimeZones == {-300, 0, 330}

\* how far below zero the raw pinsPerDay drawn go
MaxBelowZero == 1

SettingsUpTo(maxP) ==
    [pinsPerDay : (0 - MaxBelowZero)..maxP, startDate : StartDates, variationsPerUrl : {3}]
        \cup [startDate : StartDates, variationsPerUrl : {3}]

\* What can be wrong with one variation handed to the exporter
VariationDefects ==
    {"url-absent", "url-empty", "url-preview", "url-blob", "url-http",
     "url-https-data", "url-https-blob", "title-empty", "title-quoted",
     "boards-none", "board-empty", "description-empty", "keywords-none",
     "date-absent", "date-empty"}

\* What can be wrong with one source handed to the exporter
SourceDefects == {"link-empty", "link-http"}

defective(variation, kind) ==
    CASE kind = "url-absent" ->
           [f \in DOMAIN variation \ {"publicMediaUrl"} |-> variation[f]]
      [] kind = "url-empty" -> With(variation, "publicMediaUrl", <<>>)
      [] kind = "url-preview" -> With(variation, "publicMediaUrl", variation.generatedImageUrl)
      [] kind = "url-blob" -> With(variation, "publicMediaUrl", Blob \o <<"x">>)
      [] kind = "url-http" ->
           With(variation, "publicMediaUrl", <<"h", "t", "t", "p", ":", "/", "/", "a">>)
      [] kind = "url-https-data" ->
           With(variation, "publicMediaUrl", HTTPS \o <<"a", "/">> \o DataImage)
      [] kind = "url-https-blob" ->
           With(variation, "publicMediaUrl", HTTPS \o <<"a", "/">> \o Blob)
      [] kind = "title-empty" -> With(variation, "title", <<>>)
      [] kind = "title-quoted" -> With(variation, "title", <<"\"">> \o variation.title \o <<"\"">>)
      [] kind = "boards-none" -> With(variation, "suggestedBoards", <<>>)
      [] kind = "board-empty" -> With(variation, "suggestedBoards", << <<>>, <<"B", "2">> >>)
      [] kind = "description-empty" -> With(variation, "description", <<>>)
      [] kind = "keywords-none" -> With(variation, "keywords", <<>>)
      [] kind = "date-absent" ->
           [f \in DOMAIN variation \ {"scheduledDate"} |-> variation[f]]
      [] kind = "date-empty" -> With(variation, "scheduledDate", <<>>)

\* data with defect d = [u, v, kind] applied; a defect aimed at a source or
\* a variation that data does not have changes nothing
withDefect(data, d) ==
    IF d.u \notin 1..Len(data) THEN data
    ELSE IF d.kind = "link-empty" THEN [data EXCEPT ![d.u] = With(@, "sourceUrl", <<>>)]
    ELSE IF d.kind = "link-http"
    THEN [data EXCEPT ![d.u] = With(@, "sourceUrl", <<"h", "t", "t", "p", ":", "/", "/", "s">>)]
    ELSE IF d.v \notin 1..Len(data[d.u].variations) THEN data
    ELSE [data EXCEPT ![d.u] =
             With(@, "variations",
                  [data[d.u].variations EXCEPT ![d.v] = defective(@, d.kind)])]

\* the numbers of variations a source handed to the exporter may have
ExportVariationCounts == {3, 4}

\* two sources with six and with five variations in total
ShortSourceShapes == {<<2, 4>>, <<2, 3>>}

ExportShapes ==
    UNION {[1..n -> ExportVariationCounts] : n \in 0..MaxSources} \cup ShortSourceShapes

\* the <<source, variation>> places (1-based) defects are aimed at
DefectTargets == {<<1, 1>>, <<1, 2>>, <<2, 1>>}

Defects ==
    {[u |-> c[1], v |-> c[2], kind |-> k] : c \in DefectTargets, k \in VariationDefects}
        \cup {[u |-> c[1], v |-> 1, kind |-> k] : c \in DefectTargets, k \in SourceDefects}

\* a scheduled and synced collection with at most two defects
ExportInputs ==
    {collection(sh, "synced") : sh \in ExportShapes}
        \cup {withDefect(collection(sh, "synced"), d) : sh \in ExportShapes, d \in Defects}
        \cup {withDefect(withDefect(collection(sh, "synced"), d1), d2) :
                 sh \in ExportShapes, d1 \in Defects, d2 \in Defects}

---------------------------------------------------------------------------
(* The scheduler as a pure function: one call, then calls on its own       *)
(* output with edited settings                                             *)

InitCommon ==
    /\ scheduled = <<>>
    /\ history = <<>>
    /\ downloads = <<>>
    /\ alerts = <<>>
    /\ exports = 0
    /\ state = [loading |-> FALSE, error |-> <<>>, results |-> <<>>]
    /\ run = 0
    /\ cards = {}
    /\ images = 0

InitSched ==
    /\ results \in {collection(sh, fl) : sh \in Shapes \cup {TwelveItems}, fl \in Flavours}
    /\ settings \in SettingsUpTo(MaxPinsPerDay)
    /\ tz \in TimeZones
    /\ InitCommon

InitSlots ==
    /\ results = collection([u \in 1..SlotSources |-> 3], "fresh")
    /\ settings \in SettingsUpTo(MaxSlotPinsPerDay)
    /\ tz \in TimeZones
    /\ InitCommon

\* the settings of the last scheduleCampaign call
LastSettings == history[Len(history)]

\* scheduleCampaign(results, settings)
Schedule ==
    /\ history = <<>>
    /\ scheduled' = <<scheduleCampaign(results, settings, tz)>>
    /\ history' = <<settings>>
    /\ UNCHANGED <<results, settings, tz, downloads, alerts, exports, appVars>>

\* scheduleCampaign(scheduleCampaign(results, s1), s2): the scheduler run
\* once more, on its own output, under edited settings s2
Reschedule ==
    /\ Len(history) = 1
    /\ \E s2 \in SettingsUpTo(MaxEditedPinsPerDay) :
          /\ settings' = s2
          /\ scheduled' = <<scheduleCampaign(scheduled[1], s2, tz)>>
          /\ history' = Append(history, s2)
    /\ UNCHANGED <<results, tz, downloads, alerts, exports, appVars>>

NextSched == Schedule \/ Reschedule

SpecSched == InitSched /\ [][NextSched]_vars

NextSlots == Schedule

SpecSlots == InitSlots /\ [][NextSlots]_vars

---------------------------------------------------------------------------
(* The exporter as a function of the collection it is given *)

InitCSV ==
    /\ results \in ExportInputs
    /\ settings = [pinsPerDay |-> 3, startDate |-> CHOOSE d \in StartDates : TRUE,
                   variationsPerUrl |-> 3]
    /\ tz = 0
    /\ InitCommon

\* exportToPinterestCSV(results)
Export ==
    /\ exports < MaxExports
    /\ exports' = exports + 1
    /\ LET outcome == exportToPinterestCSV(results)
       IN  /\ downloads' = downloads \o outcome.download
           /\ alerts' = alerts \o outcome.alert
    /\ UNCHANGED <<results, settings, tz, scheduled, history, appVars>>

NextCSV == Export

SpecCSV == InitCSV /\ [][NextCSV]_vars

---------------------------------------------------------------------------
(* The exporter on collections whose field values hold double quotes,      *)
(* commas and line breaks                                                  *)

\* the values a row is made of
QuoteFields ==
    {"title", "publicMediaUrl", "board", "description", "sourceUrl", "scheduledDate",
     "keywords"}

\* what is put inside a value: a double quote, or a comma and a line break
Marks == {<<"\"", "q">>, <<",", "\n", "c">>}

\* data with mark appended to the values named by fields, in the second
\* variation of the first source
withMarks(data, fields, mark) ==
    LET v0 == data[1].variations[2]
        v1 == IF "title" \in fields THEN With(v0, "title", v0.title \o mark) ELSE v0
        v2 == IF "publicMediaUrl" \in fields
              THEN With(v1, "publicMediaUrl", v1.publicMediaUrl \o mark) ELSE v1
        v3 == IF "board" \in fields
              THEN With(v2, "suggestedBoards",
                        [v2.suggestedBoards EXCEPT ![1] = @ \o mark]) ELSE v2
        v4 == IF "description" \in fields
              THEN With(v3, "description", v3.description \o mark) ELSE v3
        v5 == IF "scheduledDate" \in fields
              THEN With(v4, "scheduledDate", v4.scheduledDate \o mark) ELSE v4
        v6 == IF "keywords" \in fields
              THEN With(v5, "keywords", [v5.keywords EXCEPT ![1] = @ \o mark]) ELSE v5
        s1 == With(data[1], "variations", [data[1].variations EXCEPT ![2] = v6])
    IN  [data EXCEPT ![1] = IF "sourceUrl" \in fields
                            THEN With(s1, "sourceUrl", s1.sourceUrl \o mark) ELSE s1]

QuoteInputs ==
    {withMarks(collection(<<3>>, "synced"), fields, mark) :
        fields \in SUBSET QuoteFields, mark \in Marks}

InitQuotes ==
    /\ results \in QuoteInputs
    /\ settings = [pinsPerDay |-> 3, startDate |-> CHOOSE d \in StartDates : TRUE,
                   variationsPerUrl |-> 3]
    /\ tz = 0
    /\ InitCommon

NextQuotes == Export

SpecQuotes == InitQuotes /\ [][NextQuotes]_vars

---------------------------------------------------------------------------
(* The application (src/public/App.tsx): App holds the GenerationState;    *)
(* every variation of state.results is shown by a PinStudioCard that       *)
(* generates its image and syncs it to the cloud.  A card's work goes on   *)
(* after the card is unmounted, so cards keeps it by campaign run.         *)

MaxRuns == 2      \* campaign runs started per behaviour
MaxImages == 3    \* card images generated per behaviour
RetryRuns == 2    \* the same, where the upload attempts are counted
RetryImages == 1

\* `data:image/png;base64,${part.inlineData.data}`
base64Url(data) ==
    <<"d", "a", "t", "a", ":", "i", "m", "a", "g", "e", "/", "p", "n", "g", ";",
      "b", "a", "s", "e", "6", "4", ",">> \o data

\* the image data the image model returns to the card at (uIdx, vIdx) of
\* campaign run r
imageData(r, uIdx, vIdx) ==
    <<"R">> \o String(r) \o <<"U">> \o String(uIdx) \o <<"V">> \o String(vIdx)

\* Math.random().toString(36).substring(2, 15), twice
AssetIds == {<<"k", "3", "x", "0", "z">>}

\* uploadToPublicHost, once the latency has passed: <<publicUrl>>, or <<>>
\* when it throws the security violation
uploadToPublicHostMutant(assetId) ==
    << <<"h", "t", "t", "p", ":", "/", "/", "c", "d", "n", ".", "p", "i", "n", "f", "l",
         "o", "w", "-", "p", "r", "o", ".", "a", "i", "/", "p", "i", "n", "_">>
       \o assetId \o <<".", "p", "n", "g">> >>
uploadToPublicHost(assetId) ==
    LET url ==
            <<"h", "t", "t", "p", "s", ":", "/", "/", "c", "d", "n", ".", "p", "i", "n",
              "f", "l", "o", "w", "-", "p", "r", "o", ".", "a", "i", "/", "v", "2", "/",
              "p", "r", "o", "d", "u", "c", "t", "i", "o", "n", "/", "a", "s", "s", "e",
              "t", "s", "/", "p", "i", "n", "_">> \o assetId \o <<".", "p", "n", "g">>
    IN  IF ~startsWith(url, HTTPS) THEN <<>> ELSE <<url>>

\* handleSyncComplete(urlIdx, varIdx, base64, publicUrl) applied to prev
handleSyncCompleteMutant(prev, urlIdx, varIdx, base64, syncedUrl) ==
    IF prev.results = <<>> THEN prev
    ELSE LET res == prev.results[1]
             newResults ==
                 [u \in 1..Len(res) |->
                     IF u - 1 # urlIdx THEN res[u]
                     ELSE With(res[u], "variations",
                               [v \in 1..Len(res[u].variations) |->
                                   With(With(res[u].variations[v],
                                             "generatedImageUrl", base64),
                                        "publicMediaUrl", syncedUrl)])]
         IN  [prev EXCEPT !.results = <<newResults>>]
handleSyncComplete(prev, urlIdx, varIdx, base64, syncedUrl) ==
    IF prev.results = <<>> THEN prev
    ELSE LET res == prev.results[1]
             newResults ==
                 [u \in 1..Len(res) |->
                     IF u - 1 # urlIdx THEN res[u]
                     ELSE With(res[u], "variations",
                               [v \in 1..Len(res[u].variations) |->
                                   IF v - 1 # varIdx THEN res[u].variations[v]
                                   ELSE With(With(res[u].variations[v],
                                                  "generatedImageUrl", base64),
                                             "publicMediaUrl", syncedUrl)])]
         IN  [prev EXCEPT !.results = <<newResults>>]

totalPins(st) == IF st.results # <<>> THEN Len(st.results[1]) * 3 ELSE 0

\* the number of variations with a truthy publicMediaUrl
cloudReadyCount(st) ==
    IF st.results = <<>> THEN 0
    ELSE LET flat == flattenedPins(st.results[1])
         IN  Cardinality({k \in 1..Len(flat) : ~Falsy(flat[k].variation, "publicMediaUrl")})

isAllSynced(st) == totalPins(st) > 0 /\ cloudReadyCount(st) = totalPins(st)

\* the numbers of variations per source the generation service answers with
AppShapes == {<<3>>, <<4>>, <<1>>}

\* the same, where the upload attempts are counted
SyncShapes == {<<3>>, <<1>>}

\* what generatePinterestCampaign resolves with
Responses(shapes) == {collection(sh, "fresh") : sh \in shapes}

\* the cards mounted for the collection res of campaign run r: each starts
\* generating its image unless the variation already has one
mountedCards(res, r) ==
    LET flat == flattenedPins(res)
    IN  {[run |-> r, uIdx |-> flat[k].uIdx, vIdx |-> flat[k].vIdx, phase |-> "generating",
          attempts |-> 0, base64 |-> <<>>] :
            k \in {j \in 1..Len(flat) : Falsy(flat[j].variation, "generatedImageUrl")}}

InitApp ==
    /\ results = <<>>
    /\ settings = [pinsPerDay |-> 3,
                   startDate |-> <<"2", "0", "2", "4", "-", "0", "2", "-", "2", "7">>,
                   variationsPerUrl |-> 3]
    /\ tz = -300
    /\ InitCommon

\* handleProcess up to the await: Start Synthesis is disabled while loading,
\* and nothing happens without a URL
\* (the guard run < maxRuns bounds the model).  The cards are unmounted:
\* what goes on is their work in flight.
HandleProcess(maxRuns) ==
    /\ ~state.loading
    /\ run < maxRuns
    /\ state' = [loading |-> TRUE, error |-> <<>>, results |-> <<>>]
    /\ run' = run + 1
    /\ cards' = {c \in cards : c.phase # "synced"}
    /\ UNCHANGED <<results, settings, tz, scheduled, history, downloads, alerts, exports,
                   images>>

\* generatePinterestCampaign resolves: the scheduler runs, the results are
\* stored and a card is mounted for every variation
GenerationResolves(shapes) ==
    /\ state.loading
    /\ \E response \in Responses(shapes) :
          LET scheduledResults == scheduleCampaign(response, settings, tz)
          IN  /\ results' = response
              /\ scheduled' = <<scheduledResults>>
              /\ history' = <<settings>>
              /\ state' = [loading |-> FALSE, error |-> <<>>, results |-> <<scheduledResults>>]
              /\ cards' = cards \cup mountedCards(scheduledResults, run)
    /\ UNCHANGED <<settings, tz, downloads, alerts, exports, run, images>>

\* generatePinterestCampaign rejects
GenerationRejects ==
    /\ state.loading
    /\ state' = [loading |-> FALSE,
                 error |-> <<"E", "n", "g", "i", "n", "e", " ", "f", "a", "i", "l", "u", "r", "e", ".">>,
                 results |-> <<>>]
    /\ UNCHANGED <<results, settings, tz, scheduled, history, downloads, alerts, exports,
                   run, cards, images>>

\* generateImage gets its image and starts performCloudSync(base64Url)
ImageGenerated(c, maxImages) ==
    /\ c.phase = "generating"
    /\ images < maxImages
    /\ images' = images + 1
    /\ cards' = (cards \ {c})
                  \cup {[c EXCEPT !.phase = "uploading", !.attempts = 1,
                                  !.base64 = base64Url(imageData(c.run, c.uIdx, c.vIdx))]}
    /\ UNCHANGED <<results, settings, tz, scheduled, history, downloads, alerts, exports,
                   state, run>>

\* performCloudSync: the upload resolves and onSyncComplete is called
UploadResolves(c) ==
    /\ c.phase = "uploading"
    /\ \E assetId \in AssetIds :
          /\ uploadToPublicHost(assetId) # <<>>
          /\ state' = handleSyncComplete(state, c.uIdx, c.vIdx, c.base64,
                                         uploadToPublicHost(assetId)[1])
    /\ cards' = (cards \ {c}) \cup {[c EXCEPT !.phase = "synced"]}
    /\ UNCHANGED <<results, settings, tz, scheduled, history, downloads, alerts, exports,
                   run, images>>

\* what the catch branch of performCloudSync leaves of the request c
afterFailureMutant(c) == {}
afterFailure(c) == {[c EXCEPT !.phase = "waiting"]}

\* performCloudSync: the upload rejects; the error is shown and a new
\* attempt is set to start in 3000 ms
UploadRejects(c) ==
    /\ c.phase = "uploading"
    /\ cards' = (cards \ {c}) \cup afterFailure(c)
    /\ UNCHANGED <<results, settings, tz, scheduled, history, downloads, alerts, exports,
                   state, run, images>>

\* the timer set by the catch branch fires: performCloudSync(base64) again.
\* The attempts of a request are counted up to countTo.
RetryTimer(c, countTo) ==
    /\ c.phase = "waiting"
    /\ cards' = (cards \ {c})
                  \cup {[c EXCEPT !.phase = "uploading",
                                  !.attempts = Min(c.attempts + 1, countTo)]}
    /\ UNCHANGED <<results, settings, tz, scheduled, history, downloads, alerts, exports,
                   state, run, images>>

\* Bulk Export: enabled when isAllSynced
BulkExport ==
    /\ state.results # <<>>
    /\ isAllSynced(state)
    /\ exports < MaxExports
    /\ exports' = exports + 1
    /\ LET outcome == exportToPinterestCSV(state.results[1])
       IN  /\ downloads' = downloads \o outcome.download
           /\ alerts' = alerts \o outcome.alert
    /\ UNCHANGED <<results, settings, tz, scheduled, history, appVars>>

\* the application; the upload attempts of a request are not counted
NextApp ==
    \/ HandleProcess(MaxRuns)
    \/ GenerationResolves(AppShapes)
    \/ GenerationRejects
    \/ \E c \in cards : ImageGenerated(c, MaxImages)
    \/ \E c \in cards : UploadResolves(c)
    \/ \E c \in cards : UploadRejects(c)
    \/ \E c \in cards : RetryTimer(c, 1)
    \/ BulkExport

SpecApp == InitApp /\ [][NextApp]_vars

\* the place of a card: its campaign run and the coordinate of its variation
Key(c) == <<c.run, c.uIdx, c.vIdx>>

\* the places of the cards of RetryRuns campaign runs
CardKeys ==
    {<<r, u, v>> : r \in 1..RetryRuns,
                   u \in {i - 1 : i \in UNION {DOMAIN sh : sh \in SyncShapes}},
                   v \in {j - 1 : j \in UNION {UNION {1..sh[i] : i \in DOMAIN sh} :
                                                   sh \in SyncShapes}}}

\* the generation runs and the cloud syncs of the cards, with the upload
\* attempts of a request counted up to three
NextSync ==
    \/ HandleProcess(RetryRuns)
    \/ GenerationResolves(SyncShapes)
    \/ GenerationRejects
    \/ \E c \in cards : ImageGenerated(c, RetryImages)
    \/ \E c \in cards : UploadResolves(c)
    \/ \E c \in cards : UploadRejects(c)
    \/ \E c \in cards : RetryTimer(c, 3)

SpecSync == InitApp /\ [][NextSync]_vars

\* A timer that was set fires, and the upload service does not reject
\* every attempt for ever.
SyncFairness ==
    /\ WF_vars(\E c \in cards : RetryTimer(c, 3))
    /\ SF_vars(\E c \in cards : UploadResolves(c))

SpecSyncLive == SpecSync /\ SyncFairness

---------------------------------------------------------------------------
(* What the scheduler claims are stated over *)

\* the collection the last scheduleCampaign call returned
Out == scheduled[1]

\* the effective itemsPerDay of the last call
EffectiveP == pinsPerDay(LastSettings)

\* the scheduledDate strings of the output in flattened order: OutDates[k]
\* belongs to the item at flattened position k - 1
OutDates ==
    LET flat == flattenedPins(Out)
    IN  [k \in 1..Len(flat) |-> flat[k].variation.scheduledDate]

DatePart(s) == SubSeq(s, 1, 10)
TimePart(s) == SubSeq(s, 12, 16)

CeilDiv(n, p) == (n + p - 1) \div p

\* the calendar date n days after the date-only string iso, as YYYY-MM-DD
CalendarDatePlus(iso, n) ==
    LET c == CivilFromDays(DaysFromCivil(ToNumber(SubSeq(iso, 1, 4)),
                                         ToNumber(SubSeq(iso, 6, 7)),
                                         ToNumber(SubSeq(iso, 9, 10))) + n)
    IN  String(c.year) \o <<"-">> \o pad(c.month) \o <<"-">> \o pad(c.date)

IsDigit(c) == \E k \in 1..10 : Digits[k] = c

\* s has the shape YYYY-MM-DD HH:MM
FixedWidth(s) ==
    /\ Len(s) = 16
    /\ \A k \in {1, 2, 3, 4, 6, 7, 9, 10, 12, 13, 15, 16} : IsDigit(s[k])
    /\ s[5] = "-" /\ s[8] = "-" /\ s[11] = " " /\ s[14] = ":"

\* the collection with every scheduledDate removed
WithoutDates(res) ==
    [u \in 1..Len(res) |->
        With(res[u], "variations",
             [v \in 1..Len(res[u].variations) |->
                 [f \in DOMAIN res[u].variations[v] \ {"scheduledDate"} |->
                     res[u].variations[v][f]]])]

\* Every full day holds EffectiveP items, the last day the remainder, and
\* ceil(N / p) distinct dates are used (the part of C1 that does not name the
\* start date).
DailyPacking ==
    scheduled # <<>> =>
        LET d == OutDates
            N == Len(d)
        IN  /\ Cardinality({DatePart(d[k]) : k \in 1..N}) = CeilDiv(N, EffectiveP)
            /\ \A k \in 1..N :
                 Cardinality({j \in 1..N : DatePart(d[j]) = DatePart(d[k])})
                   = IF (k - 1) \div EffectiveP < N \div EffectiveP
                     THEN EffectiveP ELSE N % EffectiveP

\* C1: the item at flattened position i is given the calendar date
\* startDate + floor(i / p) days; every full day holds exactly p items, the
\* last day the remainder, and exactly ceil(N / p) distinct dates are used.
C1_DateIsStartPlusDayOffset ==
    scheduled # <<>> =>
        LET d == OutDates
        IN  /\ \A k \in 1..Len(d) :
                 DatePart(d[k])
                   = CalendarDatePlus(LastSettings.startDate, (k - 1) \div EffectiveP)
            /\ DailyPacking

\* the number of items per day the claim gives for the settings s: 3 when
\* pinsPerDay is missing, zero or negative, the configured value otherwise
ClaimedItemsPerDay(s) ==
    IF "pinsPerDay" \notin DOMAIN s \/ s.pinsPerDay <= 0 THEN 3 ELSE s.pinsPerDay

\* C11: the number of items the scheduler puts on a day is 3 when the
\* configured pinsPerDay is missing, zero or negative and the configured
\* value when it is a positive integer (the last day takes the remainder),
\* and it is never below 1.
C11_DefaultsToThree ==
    scheduled # <<>> =>
        LET d == OutDates
            N == Len(d)
            p == ClaimedItemsPerDay(LastSettings)
        IN  /\ EffectiveP >= 1
            /\ EffectiveP = p
            /\ \A k \in 1..N :
                 Cardinality({j \in 1..N : DatePart(d[j]) = DatePart(d[k])})
                   = IF (k - 1) \div p < N \div p THEN p ELSE N % p

\* C2: for p <= 60, two distinct items of the same day never get the same
\* (hour, minute) pair, nor the same HH:MM in their scheduledDate.
C2_DistinctSlotTimes ==
    (scheduled # <<>> /\ EffectiveP <= 60) =>
        LET d == OutDates
            p == EffectiveP
        IN  \A i, j \in 1..Len(d) :
                (i < j /\ dayOffset(i - 1, p) = dayOffset(j - 1, p)) =>
                    /\ <<hour(i - 1, p), minute(i - 1, p)>> # <<hour(j - 1, p), minute(j - 1, p)>>
                    /\ TimePart(d[i]) # TimePart(d[j])

\* C2 witness: a day of sixty items was scheduled with p = 60
C2_Witness ==
    /\ scheduled # <<>>
    /\ EffectiveP = 60
    /\ Len(OutDates) >= 60
    /\ DatePart(OutDates[1]) = DatePart(OutDates[60])

\* the UTF-16 code unit of a character of a scheduledDate string
CodeUnit(c) ==
    CASE c = " " -> 32
      [] c = "-" -> 45
      [] c = ":" -> 58
      [] OTHER -> 48 + DigitValue(c)

\* a sorts strictly before b, character by character
Precedes(a, b) ==
    \/ \E k \in 1..Min(Len(a), Len(b)) :
          /\ SubSeq(a, 1, k - 1) = SubSeq(b, 1, k - 1)
          /\ CodeUnit(a[k]) < CodeUnit(b[k])
    \/ Len(a) < Len(b) /\ a = SubSeq(b, 1, Len(a))

\* C21: for every effective itemsPerDay p >= 1 the scheduledDate strings
\* are strictly increasing along the flattened order: the item at position
\* i is scheduled strictly earlier than the item at position i + 1, so
\* sorting by scheduledDate gives the flattened order back.
C21_DatesStrictlyIncreasing ==
    scheduled # <<>> =>
        \A k \in 1..(Len(OutDates) - 1) : Precedes(OutDates[k], OutDates[k + 1])

\* C8: the hour is 9 + floor(slot * 12 / p), in 9..20, the minute is
\* (slot * 17) mod 60, in 0..59, the string is the fixed-width
\* YYYY-MM-DD HH:MM; three variations with p = 3 from 2024-01-01 are
\* scheduled at 2024-01-01 09:00, 13:17 and 17:34.
C8_SlotTimesAndFormat ==
    scheduled # <<>> =>
        LET d == OutDates
        IN  /\ \A k \in 1..Len(d) :
                 LET slot == (k - 1) % EffectiveP
                     h    == 9 + (slot * 12) \div EffectiveP
                     m    == (slot * 17) % 60
                 IN  /\ h \in 9..20
                     /\ m \in 0..59
                     /\ FixedWidth(d[k])
                     /\ ToNumber(SubSeq(d[k], 12, 13)) = h
                     /\ ToNumber(SubSeq(d[k], 15, 16)) = m
            /\ ( /\ Len(d) = 3
                 /\ Len(Out) = 1
                 /\ "pinsPerDay" \in DOMAIN LastSettings
                 /\ LastSettings.pinsPerDay = 3
                 /\ LastSettings.startDate = <<"2", "0", "2", "4", "-", "0", "1", "-", "0", "1">> )
               => /\ d[1] = <<"2", "0", "2", "4", "-", "0", "1", "-", "0", "1", " ", "0", "9", ":", "0", "0">>
                  /\ d[2] = <<"2", "0", "2", "4", "-", "0", "1", "-", "0", "1", " ", "1", "3", ":", "1", "7">>
                  /\ d[3] = <<"2", "0", "2", "4", "-", "0", "1", "-", "0", "1", " ", "1", "7", ":", "3", "4">>

\* C9: the schedule is recomputed from scratch: whatever calls came before,
\* the output is the schedule of the original collection under the last
\* settings, and it is the same as for that collection without any
\* scheduledDate.
C9_RecomputedFromScratch ==
    scheduled # <<>> =>
        /\ Out = scheduleCampaign(results, LastSettings, tz)
        /\ Out = scheduleCampaign(WithoutDates(results), LastSettings, tz)

\* C9 witness: an already-scheduled collection that carried earlier dates
\* was scheduled again under other settings
C9_Witness ==
    /\ Len(history) = 2
    /\ pinsPerDay(history[1]) # pinsPerDay(history[2])
    /\ history[1].startDate # history[2].startDate
    /\ Len(OutDates) >= 4
    /\ \A u \in 1..Len(results) : \A v \in 1..Len(results[u].variations) :
          "scheduledDate" \in DOMAIN results[u].variations[v]
    /\ Out # results

\* the output variation is the input variation but for scheduledDate
SameButScheduledDate(vIn, vOut) ==
    /\ DOMAIN vOut = DOMAIN vIn \cup {"scheduledDate"}
    /\ \A f \in DOMAIN vIn \ {"scheduledDate"} : vOut[f] = vIn[f]

ShapePreserved ==
    scheduled # <<>> =>
        /\ Len(Out) = Len(results)
        /\ \A u \in 1..Len(results) :
             /\ DOMAIN Out[u] = DOMAIN results[u]
             /\ Out[u].sourceUrl = results[u].sourceUrl
             /\ Out[u].analysis = results[u].analysis
             /\ Len(Out[u].variations) = Len(results[u].variations)
             /\ \A v \in 1..Len(results[u].variations) :
                  SameButScheduledDate(results[u].variations[v], Out[u].variations[v])

\* C10: the output has the input's sources and variations in the input's
\* order, every field but scheduledDate is the input's, and the input
\* collection is never modified.
C10_ShapeAndFieldsPreserved == []ShapePreserved /\ [][results' = results]_vars

\* C10 witness: a collection with an empty source and a synced, non-empty
\* source went through the scheduler
C10_Witness ==
    /\ scheduled # <<>>
    /\ \E u \in 1..Len(results) : results[u].variations = <<>>
    /\ \E u \in 1..Len(results) :
          /\ Len(results[u].variations) = 3
          /\ "publicMediaUrl" \in DOMAIN Out[u].variations[3]

---------------------------------------------------------------------------
(* What the exporter claims are stated over *)

\* the variations of data in source-then-variation order, each with its source's URL
Items(data) == flattenedPins(data)

\* the variation has a publicMediaUrl that starts with https://
UrlOk(variation) ==
    /\ "publicMediaUrl" \in DOMAIN variation
    /\ variation.publicMediaUrl # <<>>
    /\ startsWith(variation.publicMediaUrl, HTTPS)

AllUrlsOk(data) == \A k \in 1..Len(Items(data)) : UrlOk(Items(data)[k].variation)

\* the titles of the variations the public-URL gate must block
BlockedTitles(data) ==
    {Items(data)[k].variation.title :
        k \in {j \in 1..Len(Items(data)) : ~UrlOk(Items(data)[j].variation)}}

\* the columns of the row of item that have no content or an invalid one
\* (for an item whose publicMediaUrl starts with https://)
RowDefects(item) ==
    LET v == item.variation
    IN  {f \in {"Title"} : v.title = <<>>}
        \cup {f \in {"Media URL"} : includes(v.publicMediaUrl, DataImage)
                                      \/ includes(v.publicMediaUrl, Blob)}
        \cup {f \in {"Board"} : v.suggestedBoards = <<>> \/ v.suggestedBoards[1] = <<>>}
        \cup {f \in {"Description"} : v.description = <<>>}
        \cup {f \in {"Link"} : item.url = <<>> \/ ~startsWith(item.url, HTTPS)}
        \cup {f \in {"Date"} : Falsy(v, "scheduledDate")}
        \cup {f \in {"Keywords"} : join(v.keywords, <<",", " ">>) = <<>>}

\* every stage of the export passes for the whole collection
AllStagesPass(data) ==
    /\ AllUrlsOk(data)
    /\ Len(Items(data)) = 3 * Len(data)
    /\ \A k \in 1..Len(Items(data)) : RowDefects(Items(data)[k]) = {}

\* the number of lines of a text
Lines(text) == 1 + Cardinality({k \in 1..Len(text) : text[k] = "\n"})

\* C3: when some variation's publicMediaUrl is absent, empty or not https
\* (a data: URI, a blob: reference), the export fails, the failure names the
\* title of such a variation, and no file carries a local preview or an
\* empty Media URL.
C3_BadUrlFailsNamingTitle ==
    exports > 0 =>
        /\ ~AllUrlsOk(results) =>
             /\ downloads = <<>>
             /\ alerts # <<>>
             /\ \A k \in 1..Len(alerts) :
                  /\ alerts[k].kind = "CloudSyncMissing"
                  /\ alerts[k].title \in BlockedTitles(results)
        /\ \A k \in 1..Len(downloads) :
             /\ ~includes(downloads[k], DataImage)
             /\ ~includes(downloads[k], <<",", "\"", "\"", ",">>)

\* C4: when every variation has an https publicMediaUrl and the number of
\* rows differs from 3 * (number of sources), the export fails with the
\* count-mismatch error.
C4_CountMismatchRejected ==
    (exports > 0 /\ AllUrlsOk(results) /\ Len(Items(results)) # 3 * Len(results)) =>
        /\ downloads = <<>>
        /\ alerts # <<>>
        /\ \A k \in 1..Len(alerts) :
             /\ alerts[k].kind = "BatchIntegrity"
             /\ alerts[k].expected = 3 * Len(results)
             /\ alerts[k].found = Len(Items(results))

\* C5 as stated: CSV text is returned only when every source has exactly
\* three variations.
C5_OnlyThreePerSource ==
    downloads # <<>> => \A u \in 1..Len(results) : Len(results[u].variations) = 3

\* C5 as amended: CSV text is returned only when the total number of
\* variations is three times the number of sources.
C5_OnlyThreeTimesSources ==
    downloads # <<>> => Len(Items(results)) = 3 * Len(results)

\* C5 witness: CSV text was returned for a collection with a source that
\* does not have three variations
C5_Witness ==
    /\ downloads # <<>>
    /\ \E u \in 1..Len(results) : Len(results[u].variations) # 3

\* C6: for input that passes the public-URL gate and the row-count check,
\* a row with an empty or invalid column makes the export fail with an error
\* that gives the 1-based index of an offending row and an offending field
\* of that row.
C6_RowFailureLocated ==
    ( /\ exports > 0
      /\ AllUrlsOk(results)
      /\ Len(Items(results)) = 3 * Len(results)
      /\ \E k \in 1..Len(Items(results)) : RowDefects(Items(results)[k]) # {} ) =>
        /\ downloads = <<>>
        /\ alerts # <<>>
        /\ \A k \in 1..Len(alerts) :
             /\ alerts[k].kind = "Row"
             /\ alerts[k].idx \in 1..Len(Items(results))
             /\ alerts[k].field \in RowDefects(Items(results)[alerts[k].idx])

\* Standard CSV reading (RFC 4180).  A field that opens with a double
\* quote runs to the next double quote that is not doubled; a doubled
\* double quote inside it stands for one; its closing double quote must be
\* followed by a comma, a line break or the end of the text.  A field that
\* does not open with a double quote runs to the next comma or line break
\* and holds no double quote.

\* the position of the closing quote of the quoted field whose content
\* starts at i, 0 when there is none
RECURSIVE ClosingQuote(_, _)
ClosingQuote(text, i) ==
    IF i > Len(text) THEN 0
    ELSE IF text[i] # "\"" THEN ClosingQuote(text, i + 1)
    ELSE IF i < Len(text) /\ text[i + 1] = "\"" THEN ClosingQuote(text, i + 2)
    ELSE i

\* the position after the unquoted field that starts at i
RECURSIVE BareEnd(_, _)
BareEnd(text, i) ==
    IF i > Len(text) \/ text[i] \in {",", "\n"} THEN i ELSE BareEnd(text, i + 1)

\* the content of a quoted field with every doubled double quote made one
RECURSIVE Undoubled(_)
Undoubled(s) ==
    IF s = <<>> THEN <<>>
    ELSE IF Head(s) = "\"" THEN <<"\"">> \o Undoubled(SubSeq(s, 3, Len(s)))
    ELSE <<Head(s)>> \o Undoubled(Tail(s))

\* the field that starts at position i: its value and the position after it,
\* or ok = FALSE when it is malformed
ReadField(text, i) ==
    IF i <= Len(text) /\ text[i] = "\""
    THEN LET j == ClosingQuote(text, i + 1)
         IN  IF j = 0 \/ (j < Len(text) /\ text[j + 1] \notin {",", "\n"})
             THEN [ok |-> FALSE]
             ELSE [ok |-> TRUE, value |-> Undoubled(SubSeq(text, i + 1, j - 1)), next |-> j + 1]
    ELSE LET j == BareEnd(text, i)
         IN  IF \E k \in i..(j - 1) : text[k] = "\"" THEN [ok |-> FALSE]
             ELSE [ok |-> TRUE, value |-> SubSeq(text, i, j - 1), next |-> j]

\* the rows of text from the field at position i on; row holds the fields
\* of the current line read so far.  The result is the sequence of rows, or
\* <<"malformed">>.
RECURSIVE ReadCSV(_, _, _)
ReadCSV(text, i, row) ==
    LET f == ReadField(text, i)
    IN  IF ~f.ok THEN <<"malformed">>
        ELSE IF f.next > Len(text) THEN <<Append(row, f.value)>>
        ELSE IF text[f.next] = ","
        THEN ReadCSV(text, f.next + 1, Append(row, f.value))
        ELSE LET rest == ReadCSV(text, f.next + 1, <<>>)
             IN  IF rest = <<"malformed">> THEN rest
                 ELSE <<Append(row, f.value)>> \o rest

\* the names of the seven columns, in order
ColumnNames ==
    << <<"T", "i", "t", "l", "e">>,
       <<"M", "e", "d", "i", "a", " ", "U", "R", "L">>,
       <<"P", "i", "n", "t", "e", "r", "e", "s", "t", " ", "b", "o", "a", "r", "d">>,
       <<"D", "e", "s", "c", "r", "i", "p", "t", "i", "o", "n">>,
       <<"L", "i", "n", "k">>,
       <<"P", "u", "b", "l", "i", "s", "h", " ", "d", "a", "t", "e">>,
       <<"K", "e", "y", "w", "o", "r", "d", "s">> >>

\* the seven values the row of item is made from, in column order
FieldValues(item) ==
    LET v == item.variation
    IN  << v.title, v.publicMediaUrl, v.suggestedBoards[1], v.description, item.url,
           IF Falsy(v, "scheduledDate") THEN <<>> ELSE v.scheduledDate,
           join(v.keywords, <<",", " ">>) >>

\* C12: every CSV text returned reads back, by standard CSV parsing, as the
\* header row of the seven column names followed by one row per variation
\* holding exactly its seven original values in column order (every field
\* is wrapped in double quotes and every double quote inside it doubled).
C12_FieldsQuotedAndEscaped ==
    \A k \in 1..Len(downloads) :
        ReadCSV(downloads[k], 1, <<>>)
          = <<ColumnNames>> \o [j \in 1..Len(Items(results)) |-> FieldValues(Items(results)[j])]

\* a file is downloaded only for a collection that passes every stage, and
\* it holds the header and one line per variation
DownloadsComplete ==
    \A k \in 1..Len(downloads) :
        /\ AllStagesPass(results)
        /\ Lines(downloads[k]) = 1 + Len(Items(results))

\* an export either downloads one file and shows nothing, or shows one
\* error and downloads nothing; it leaves the collection as it was
ExportStep ==
    exports' # exports =>
        /\ results' = results
        /\ IF AllStagesPass(results)
           THEN Len(downloads') = Len(downloads) + 1 /\ alerts' = alerts
           ELSE downloads' = downloads /\ Len(alerts') = Len(alerts) + 1

\* C7: the export is all-or-nothing: a file is downloaded only if every
\* stage passed for the whole collection; otherwise no file is produced,
\* the error is shown and the collection is unchanged.
C7_AllOrNothing == []DownloadsComplete /\ [][ExportStep]_vars

\* C7 witness: an export failed on a row after the first one: the error was
\* shown and nothing was downloaded
C7_Witness ==
    /\ exports > 0
    /\ downloads = <<>>
    /\ Len(alerts) = exports
    /\ alerts[1].kind = "Row"
    /\ alerts[1].idx > 1

\* the columns of the row of item that break a rule, in column order: a
\* column is in the sequence when its value is empty or, for Media URL and
\* Link, not a public https one
FailingFields(item) ==
    LET v == item.variation
        failing ==
            [f \in {"Title", "Media URL", "Board", "Description", "Link", "Date", "Keywords"} |->
                CASE f = "Title" -> v.title = <<>>
                  [] f = "Media URL" ->
                       \/ ~UrlOk(v)
                       \/ includes(v.publicMediaUrl, DataImage)
                       \/ includes(v.publicMediaUrl, Blob)
                  [] f = "Board" -> v.suggestedBoards = <<>> \/ v.suggestedBoards[1] = <<>>
                  [] f = "Description" -> v.description = <<>>
                  [] f = "Link" -> item.url = <<>> \/ ~startsWith(item.url, HTTPS)
                  [] f = "Date" -> Falsy(v, "scheduledDate")
                  [] f = "Keywords" -> join(v.keywords, <<",", " ">>) = <<>>]
    IN  SelectSeq(<<"Title", "Media URL", "Board", "Description", "Link", "Date", "Keywords">>,
                  LAMBDA f : failing[f])

\* the position of the first variation, in source-then-variation order,
\* that the public-URL gate must block (0 when there is none)
FirstBlocked(data) ==
    FirstIndex([k \in 1..Len(Items(data)) |-> ~UrlOk(Items(data)[k].variation)])

\* the position of the first variation whose row breaks a rule (0 when
\* there is none)
FirstFailingRow(data) ==
    FirstIndex([k \in 1..Len(Items(data)) |-> FailingFields(Items(data)[k]) # <<>>])

\* data breaks a rule other than the public-URL gate
BreaksAnotherRule(data) ==
    \/ Len(Items(data)) # 3 * Len(data)
    \/ \E k \in 1..Len(Items(data)) :
          \E j \in 1..Len(FailingFields(Items(data)[k])) :
              FailingFields(Items(data)[k])[j] # "Media URL"

\* C18: the stages are checked in a fixed order.  For input that breaks the
\* public-URL gate and another rule, the failure reported is the
\* public-URL one, for the first offending variation in source-then-
\* variation order; a row-count mismatch is reported only when every
\* variation has an https publicMediaUrl; a row failure is reported only
\* when both earlier stages pass, for the lowest-indexed failing row and
\* the first failing field of it in column order.
C18_StagesInOrder ==
    \A k \in 1..Len(alerts) :
        /\ (~AllUrlsOk(results) /\ BreaksAnotherRule(results)) =>
              /\ alerts[k].kind = "CloudSyncMissing"
              /\ alerts[k].title = Items(results)[FirstBlocked(results)].variation.title
        /\ alerts[k].kind = "BatchIntegrity" => AllUrlsOk(results)
        /\ alerts[k].kind = "Row" =>
              /\ AllUrlsOk(results)
              /\ Len(Items(results)) = 3 * Len(results)
              /\ alerts[k].idx = FirstFailingRow(results)
              /\ alerts[k].field = FailingFields(Items(results)[alerts[k].idx])[1]

---------------------------------------------------------------------------
(* What the application claims are stated over *)

\* the variations of state.results in source-then-variation order
Held == IF state.results = <<>> THEN <<>> ELSE flattenedPins(state.results[1])

\* the variation at the place of card c in state.results, <<>> when
\* state.results is null, is of another campaign run or has no such place
VariationOf(c) ==
    IF state.results = <<>> \/ c.run # run THEN <<>>
    ELSE LET hits == {k \in 1..Len(Held) : Held[k].uIdx = c.uIdx /\ Held[k].vIdx = c.vIdx}
         IN  IF hits = {} THEN <<>> ELSE <<Held[CHOOSE k \in hits : TRUE].variation>>

\* the sync of card c was recorded: its variation holds its image and a
\* public URL
Recorded(c) ==
    /\ VariationOf(c) # <<>>
    /\ "publicMediaUrl" \in DOMAIN VariationOf(c)[1]
    /\ VariationOf(c)[1].generatedImageUrl = c.base64

\* C13: in every state of the application, every variation's publicMediaUrl
\* is absent, or it starts with https://, contains neither a data: URI nor a
\* blob: reference and is not the base64 local preview.
C13_PublicUrlIsHttps ==
    \A k \in 1..Len(Held) :
        LET v == Held[k].variation
        IN  "publicMediaUrl" \in DOMAIN v =>
                /\ startsWith(v.publicMediaUrl, HTTPS)
                /\ ~includes(v.publicMediaUrl, <<"d", "a", "t", "a", ":">>)
                /\ ~includes(v.publicMediaUrl, Blob)
                /\ v.publicMediaUrl # v.generatedImageUrl

\* C13 witness: a sync that was rejected and retried has been recorded
C13_Witness ==
    \E c \in cards : c.phase = "synced" /\ c.attempts >= 2 /\ Recorded(c)

\* C14: every variation the scheduler returns has a non-empty
\* scheduledDate of the form YYYY-MM-DD HH:MM (the lookup finds its item),
\* and every variation held in state.results has the scheduledDate the one
\* scheduler pass of its campaign run gave it.
C14_ScheduledDateSetOnce ==
    /\ scheduled # <<>> => \A k \in 1..Len(OutDates) : FixedWidth(OutDates[k])
    /\ state.results # <<>> =>
          /\ scheduled # <<>>
          /\ Len(Held) = Len(OutDates)
          /\ \A k \in 1..Len(Held) :
                /\ "scheduledDate" \in DOMAIN Held[k].variation
                /\ Held[k].variation.scheduledDate = OutDates[k]

\* C14 witness: in the second campaign run a sync was recorded into the
\* scheduled results
C14_Witness ==
    /\ run = 2
    /\ Len(Held) >= 3
    /\ \E c \in cards : c.phase = "synced" /\ Recorded(c)

\* the public URLs the upload service returns
PublicUrls == {uploadToPublicHost(a)[1] : a \in {b \in AssetIds : uploadToPublicHost(b) # <<>>}}

\* what the completion of the sync of card c changes between st and st2
SyncEffect(c, st, st2) ==
    /\ st2.loading = st.loading
    /\ st2.error = st.error
    /\ (st.results = <<>>) = (st2.results = <<>>)
    /\ st.results # <<>> =>
          LET old == st.results[1]
              new == st2.results[1]
          IN  /\ Len(new) = Len(old)
              /\ \A u \in 1..Len(old) :
                    /\ DOMAIN new[u] = DOMAIN old[u]
                    /\ new[u].sourceUrl = old[u].sourceUrl
                    /\ new[u].analysis = old[u].analysis
                    /\ Len(new[u].variations) = Len(old[u].variations)
                    /\ \A v \in 1..Len(old[u].variations) :
                          LET vOld == old[u].variations[v]
                              vNew == new[u].variations[v]
                          IN  IF u - 1 = c.uIdx /\ v - 1 = c.vIdx
                              THEN /\ DOMAIN vNew
                                        = DOMAIN vOld \cup {"generatedImageUrl", "publicMediaUrl"}
                                   /\ vNew.generatedImageUrl = c.base64
                                   /\ vNew.publicMediaUrl \in PublicUrls
                                   /\ \A f \in DOMAIN vOld \ {"generatedImageUrl", "publicMediaUrl"} :
                                         vNew[f] = vOld[f]
                              ELSE vNew = vOld

\* the place of card c is not in the results of st
NoSuchPlace(c, st) ==
    \/ st.results = <<>>
    \/ c.uIdx + 1 \notin 1..Len(st.results[1])
    \/ c.vIdx + 1 \notin 1..Len(st.results[1][c.uIdx + 1].variations)

\* a step that completes the sync of a card changes only that card's
\* variation, and nothing when there is none
SyncCompleteStep ==
    \A c \in cards :
        (c.phase = "uploading" /\ c \notin cards' /\ [c EXCEPT !.phase = "synced"] \in cards') =>
            /\ SyncEffect(c, state, state')
            /\ NoSuchPlace(c, state) => state' = state

\* C15: handleSyncComplete(urlIdx, varIdx, base64, publicUrl) sets
\* generatedImageUrl and publicMediaUrl of the variation at (urlIdx, varIdx)
\* of the current results and changes nothing else: not the other
\* variations and sources, not that variation's other fields, not the
\* loading and error flags; with results null or no such coordinate the
\* state is unchanged.
C15_SyncChangesOneVariation == [][SyncCompleteStep]_vars

\* C15 witness: a sync was recorded for one variation while another
\* variation of the same source has none
C15_Witness ==
    /\ \E c \in cards : c.phase = "synced" /\ Recorded(c)
    /\ \E k \in 1..Len(Held) : "publicMediaUrl" \notin DOMAIN Held[k].variation

\* C16: at most two upload attempts are made for one sync request.
C16_AtMostTwoAttempts == \A c \in cards : c.attempts <= 2

\* the sync of the card at place k has started
SyncStarted(k) == \E c \in cards : Key(c) = k /\ c.phase \in {"uploading", "waiting"}

\* the sync of the card at place k is recorded in state.results
SyncRecorded(k) == \E c \in cards : Key(c) = k /\ c.phase = "synced" /\ Recorded(c)

\* the results of the campaign run of place k were replaced
Replaced(k) == run # k[1]

C19_EnabledExportNotBlocked ==
    (state.results # <<>> /\ isAllSynced(state)) =>
        LET r == generateCSVString(state.results[1])
        IN  ~(r.tag = "error" /\ r.kind \in {"CloudSyncMissing", "BatchIntegrity"})

\* C20: the image and the public URL a variation of state.results holds
\* come from the sync of its own card in the current campaign run, never
\* from a sync started in an earlier run.
C20_CompletionStaysInItsRun ==
    \A k \in 1..Len(Held) :
        LET v == Held[k].variation
        IN  (~Falsy(v, "generatedImageUrl") \/ ~Falsy(v, "publicMediaUrl")) =>
                v.generatedImageUrl = base64Url(imageData(run, Held[k].uIdx, Held[k].vIdx))

===========================================================================
